---- MODULE Spec2Model ----
(***************************************************************************)
(* Model of init-scripts/init.py, the CloudWorx environment bootstrap:     *)
(* the privilege gate, the four precondition checks (check_pwd, check_env, *)
(* check_certs, check_nodejs) and the orchestration in main.               *)
(*                                                                         *)
(* Text is a sequence of tokens.  A token is one character ("#", "=", " ", *)
(* "\n") or one word that is read as a unit ("ARGON_THREADS", "x").        *)
(***************************************************************************)
EXTENDS Integers, Sequences, FiniteSets, TLC

\* the run of main
VARIABLES pc, exitCode, win, cwd, files, dirs, out, cmds

\* one call of run_cmd: its position, its locals, the child process, the two
\* pipes and what has been rendered on the terminal
VARIABLES rpc, capture, child, pipeOut, pipeErr, printed, starts_w_progress,
          return_code, term, ret

mainVars == <<pc, exitCode, win, cwd, files, dirs, out, cmds>>

runVars == <<rpc, capture, child, pipeOut, pipeErr, printed, starts_w_progress,
             return_code, term, ret>>

vars == <<mainVars, runVars>>

----------------------------------------------------------------------------
(* Bounds *)

\* longest configuration / template content, in tokens (SpecEnv)
MaxLen == 5
\* most package managers found on the executable path in one run
MaxPMsOnPath == 2
\* most lines a child process writes (SpecRun)
MaxWrites == 3
\* lines a pipe holds before a write to it blocks (SpecRun)
PipeCap == 2

----------------------------------------------------------------------------
(* Program constants *)

ROOT_DIR == "root"
OtherDir == "elsewhere"

ENV_KEYS == {"RECAPTCHA_SECRET_KEY", "ARGON_MEM_COST", "ARGON_TIME_COST", "ARGON_THREADS"}

\* install_cmds of install_mkcert, in the dictionary's insertion order
PMS == <<"brew", "choco", "scoop", "apt", "dnf", "pacman">>

install_cmds ==
    [pm \in {PMS[i] : i \in 1..Len(PMS)} |->
        CASE pm = "brew"   -> "brew install mkcert"
          [] pm = "choco"  -> "choco install mkcert -y"
          [] pm = "scoop"  -> "scoop install mkcert"
          [] pm = "apt"    -> "sudo apt update && sudo apt install -y mkcert"
          [] pm = "dnf"    -> "sudo dnf install -y mkcert"
          [] pm = "pacman" -> "sudo pacman -S mkcert"]

\* process still running
Running == -1

\* arguments of sys.exit
EXIT_ADMIN == 1
EXIT_ENV == 2
EXIT_CERTS == 3
EXIT_NODEJS == 4

EnvPath == <<"root", ".env">>

----------------------------------------------------------------------------
(* Text helpers: str.strip, str.startswith, in, str.find, str.split, slices *)

WS == {" ", "\n"}

RECURSIVE LStrip(_)
LStrip(s) == IF s # <<>> /\ Head(s) \in WS THEN LStrip(Tail(s)) ELSE s

RECURSIVE RStrip(_)
RStrip(s) ==
    IF s # <<>> /\ s[Len(s)] \in WS THEN RStrip(SubSeq(s, 1, Len(s) - 1)) ELSE s

Strip(s) == RStrip(LStrip(s))

StartsWith(s, c) == s # <<>> /\ s[1] = c

Contains(s, c) == \E i \in 1..Len(s) : s[i] = c

\* str.find: 0-based index of the first occurrence, -1 when there is none
Find(s, c) ==
    IF Contains(s, c)
    THEN (CHOOSE i \in 1..Len(s) : s[i] = c /\ \A j \in 1..(i - 1) : s[j] # c) - 1
    ELSE -1

\* s[i:] for a 0-based i >= 0
SliceFrom(s, i) == SubSeq(s, i + 1, Len(s))

\* s[:i] for a 0-based i >= 0
SliceTo(s, i) == SubSeq(s, 1, i)

\* iteration over a text file: each line keeps its terminator
RECURSIVE SplitLines(_)
SplitLines(s) ==
    IF s = <<>> THEN <<>>
    ELSE IF Find(s, "\n") = -1 THEN <<s>>
    ELSE <<SliceTo(s, Find(s, "\n") + 1)>> \o SplitLines(SliceFrom(s, Find(s, "\n") + 1))

----------------------------------------------------------------------------
(* File system helpers *)

\* a path is <<directory, path relative to it>>
Rel(name) == <<cwd, name>>

Exists(p) == p \in DOMAIN files \/ p \in dirs

WriteText(fs, p, content) ==
    [q \in DOMAIN fs \cup {p} |-> IF q = p THEN content ELSE fs[q]]

----------------------------------------------------------------------------
(* Output helpers: every message is [lvl, msg, arg] *)

Msg(lvl, msg) == [lvl |-> lvl, msg |-> msg, arg |-> <<>>]
MsgA(lvl, msg, arg) == [lvl |-> lvl, msg |-> msg, arg |-> arg]

psec(title) == Msg("psec", title)
perr(msg) == Msg("perr", msg)
pinfo(msg) == Msg("pinfo", msg)
pwarn(msg) == Msg("pwarn", msg)
psuccess(msg) == Msg("psuccess", msg)

----------------------------------------------------------------------------
(* Process Runner, as the checks see it *)

\* the ways a child process can end: it could not be created (Popen raised),
\* or it was created and exited with a status
ProcOutcomes ==
    { [created |-> TRUE, rc |-> 0],
      [created |-> TRUE, rc |-> 1],
      [created |-> FALSE, rc |-> Running] }

\* run_cmd returning True for every child that was created, whatever its status
run_cmd_any_status(cmd, output, o) ==
    [ ok    |-> o.created,
      out   |-> IF o.created THEN <<>>
                ELSE <<Msg("print", "exception"), MsgA("perr", "Failed to run command", <<cmd>>)>>,
      entry |-> [cmd |-> cmd, output |-> output, cwd |-> cwd, created |-> o.created, rc |-> o.rc] ]

\* run_cmd: the return value, the messages of the except branch and the record
\* of the command that was run
run_cmd(cmd, output, o) ==
    [ ok    |-> o.created /\ o.rc = 0,
      out   |-> IF o.created THEN <<>>
                ELSE <<Msg("print", "exception"), MsgA("perr", "Failed to run command", <<cmd>>)>>,
      entry |-> [cmd |-> cmd, output |-> output, cwd |-> cwd, created |-> o.created, rc |-> o.rc] ]

CA_CMD == "mkcert -install"
GEN_CMD == "mkcert -key-file certs/localhost-key.pem -cert-file certs/localhost.pem localhost"
NPM_CMD == "npm install"

KeyFile == "certs/localhost-key.pem"
CertFile == "certs/localhost.pem"

\* the files a command line names as its outputs, relative to its directory
Writes(cmd) == IF cmd = GEN_CMD THEN {KeyFile, CertFile} ELSE {}

\* the file system after a command has run in the current directory
AfterCmd(fs, cmd, ok) ==
    IF ok
    THEN [q \in DOMAIN fs \cup {Rel(n) : n \in Writes(cmd)} |->
             IF q \in {Rel(n) : n \in Writes(cmd)} THEN <<"PEM">> ELSE fs[q]]
    ELSE fs

\* yn_prompt: ans.lower().strip() == "y"
Lower(s) == [i \in 1..Len(s) |-> IF s[i] = "Y" THEN "y" ELSE IF s[i] = "N" THEN "n" ELSE s[i]]

yn_prompt(ans) == Strip(Lower(ans)) = <<"y">>

Answers == {<<"y">>, <<" ", "Y", "\n">>, <<"n">>, <<>>, <<"y", "y">>}

----------------------------------------------------------------------------
(* check_env: validation of one line and of the whole file *)

KeyOf(line) == SliceTo(line, Find(line, "="))
ValOf(line) == SliceFrom(line, Find(line, "=") + 1)

\* the loop body comparing the key without trimming it
env_line_untrimmed(line) ==
    IF StartsWith(line, "#") \/ Strip(line) = <<>>
    THEN [err |-> FALSE, out |-> <<>>]
    ELSE IF ~Contains(line, "=")
    THEN [err |-> TRUE, out |-> <<MsgA("perr", "Invalid line in .env", Strip(line))>>]
    ELSE IF KeyOf(line) \notin {<<k>> : k \in ENV_KEYS}
    THEN [err |-> TRUE, out |-> <<MsgA("perr", "Unknown key in .env", KeyOf(line))>>]
    ELSE IF Strip(ValOf(line)) = <<>>
    THEN [err |-> TRUE, out |-> <<MsgA("perr", "Empty value for key .env", KeyOf(line))>>]
    ELSE [err |-> FALSE, out |-> <<>>]

\* body of the loop over the lines of .env: whether the line sets err, and
\* what it reports
env_line(line) ==
    IF StartsWith(line, "#") \/ Strip(line) = <<>>
    THEN [err |-> FALSE, out |-> <<>>]
    ELSE IF ~Contains(line, "=")
    THEN [err |-> TRUE, out |-> <<MsgA("perr", "Invalid line in .env", Strip(line))>>]
    ELSE IF Strip(KeyOf(line)) \notin {<<k>> : k \in ENV_KEYS}
    THEN [err |-> TRUE, out |-> <<MsgA("perr", "Unknown key in .env", KeyOf(line))>>]
    ELSE IF Strip(ValOf(line)) = <<>>
    THEN [err |-> TRUE, out |-> <<MsgA("perr", "Empty value for key .env", KeyOf(line))>>]
    ELSE [err |-> FALSE, out |-> <<>>]

\* the loop leaving at the first line that fails
RECURSIVE env_scan_break(_)
env_scan_break(lines) ==
    IF lines = <<>> THEN [err |-> FALSE, out |-> <<>>]
    ELSE LET h == env_line(Head(lines))
         IN  IF h.err THEN h
             ELSE env_scan_break(Tail(lines))

\* the loop keeping the keys it has seen and failing a line that repeats one
RECURSIVE env_scan_seen(_, _)
env_scan_seen(lines, seen) ==
    IF lines = <<>> THEN [err |-> FALSE, out |-> <<>>]
    ELSE LET l == Head(lines)
             h == env_line(l)
             k == IF ~StartsWith(l, "#") /\ Contains(l, "=") THEN Strip(KeyOf(l)) ELSE <<>>
             dup == ~h.err /\ k # <<>> /\ k \in seen
             t == env_scan_seen(Tail(lines), seen \cup {k})
         IN  [err |-> h.err \/ dup \/ t.err,
              out |-> h.out \o (IF dup THEN <<MsgA("perr", "Duplicate key in .env", k)>> ELSE <<>>) \o t.out]

env_scan_unique(lines) == env_scan_seen(lines, {})

\* the loop over the lines of .env
RECURSIVE env_scan(_)
env_scan(lines) ==
    IF lines = <<>> THEN [err |-> FALSE, out |-> <<>>]
    ELSE LET h == env_line(Head(lines))
             t == env_scan(Tail(lines))
         IN  [err |-> h.err \/ t.err, out |-> h.out \o t.out]

\* the content written to .env when it is created from .env.example
env_from_example(env_content) == SliceFrom(env_content, Find(env_content, "\n") + 1)

----------------------------------------------------------------------------
(* install_mkcert *)

PMNames == {PMS[i] : i \in 1..Len(PMS)}

\* the loop going on to the next package manager after a successful install
RECURSIVE install_from_no_return(_, _, _)
install_from_no_return(i, found, res) ==
    IF i > Len(PMS)
    THEN [ok |-> FALSE,
          out |-> <<perr("No supported package manager found"),
                    pinfo("Please install mkcert manually")>>,
          cmds |-> <<>>]
    ELSE IF PMS[i] \in found
    THEN LET r == run_cmd(install_cmds[PMS[i]], TRUE, res[PMS[i]])
             via == <<MsgA("pinfo", "Installing via", <<PMS[i]>>)>>
             t == install_from_no_return(i + 1, found, res)
         IN  IF r.ok
             THEN [ok |-> TRUE,
                   out |-> via \o r.out \o <<psuccess("mkcert installed successfully")>> \o t.out,
                   cmds |-> <<r.entry>> \o t.cmds]
             ELSE [ok |-> t.ok, out |-> via \o r.out \o t.out, cmds |-> <<r.entry>> \o t.cmds]
    ELSE install_from_no_return(i + 1, found, res)

\* the loop over install_cmds from its i-th entry on; found is the set of
\* package managers that which() finds, res the outcome of each one's command
RECURSIVE install_from(_, _, _)
install_from(i, found, res) ==
    IF i > Len(PMS)
    THEN [ok |-> FALSE,
          out |-> <<perr("No supported package manager found"),
                    pinfo("Please install mkcert manually")>>,
          cmds |-> <<>>]
    ELSE IF PMS[i] \in found
    THEN LET r == run_cmd(install_cmds[PMS[i]], TRUE, res[PMS[i]])
             via == <<MsgA("pinfo", "Installing via", <<PMS[i]>>)>>
         IN  IF r.ok
             THEN [ok |-> TRUE,
                   out |-> via \o r.out \o <<psuccess("mkcert installed successfully")>>,
                   cmds |-> <<r.entry>>]
             ELSE LET t == install_from(i + 1, found, res)
                  IN  [ok |-> t.ok, out |-> via \o r.out \o t.out, cmds |-> <<r.entry>> \o t.cmds]
    ELSE install_from(i + 1, found, res)

install_mkcert(found, res) ==
    LET r == install_from(1, found, res)
    IN  [r EXCEPT !.out = <<pinfo("Installing mkcert...")>> \o @]

----------------------------------------------------------------------------
(* Orchestration *)

\* main with check_certs called before check_env
main_next_swapped(p) ==
    CASE p = "main"         -> "check_pwd"
      [] p = "check_pwd"    -> "check_certs"
      [] p = "check_certs"  -> "check_env"
      [] p = "check_env"    -> "check_nodejs"
      [] p = "check_nodejs" -> "finish"
      [] p = "finish"       -> "done"

\* the statement of main that follows each call (lines 374-380)
main_next(p) ==
    CASE p = "main"         -> "check_pwd"
      [] p = "check_pwd"    -> "check_env"
      [] p = "check_env"    -> "check_certs"
      [] p = "check_certs"  -> "check_nodejs"
      [] p = "check_nodejs" -> "finish"
      [] p = "finish"       -> "done"

Systems == {"Windows", "Linux", "Darwin"}

\* main changing into the root directory before it tests the privileges
main_gate_chdir_first ==
    /\ pc = "main"
    /\ exitCode = Running
    /\ cwd' = ROOT_DIR
    /\ \E system \in Systems, is_admin \in BOOLEAN :
          IF system = "Windows" /\ ~is_admin
          THEN /\ out' = out \o <<perr("This script requires administrator privileges on Windows"),
                                  perr("Please run again as admin"),
                                  Msg("print", ""),
                                  pinfo("Tip: Run the following in Powershell if wt.exe is available: "),
                                  Msg("pwindows_tip", "")>>
               /\ exitCode' = EXIT_ADMIN
               /\ UNCHANGED <<pc, win>>
          ELSE /\ win' = (system = "Windows")
               /\ out' = out \o <<Msg("pbanner", "")>>
               /\ pc' = main_next(pc)
               /\ UNCHANGED exitCode
    /\ UNCHANGED <<files, dirs, cmds>>
    /\ UNCHANGED runVars

\* main, up to the banner: the privilege gate
main_gate ==
    /\ pc = "main"
    /\ exitCode = Running
    /\ \E system \in Systems, is_admin \in BOOLEAN :
          IF system = "Windows" /\ ~is_admin
          THEN /\ out' = out \o <<perr("This script requires administrator privileges on Windows"),
                                  perr("Please run again as admin"),
                                  Msg("print", ""),
                                  pinfo("Tip: Run the following in Powershell if wt.exe is available: "),
                                  Msg("pwindows_tip", "")>>
               /\ exitCode' = EXIT_ADMIN
               /\ UNCHANGED <<pc, win>>
          ELSE /\ win' = (system = "Windows")
               /\ out' = out \o <<Msg("pbanner", "")>>
               /\ pc' = main_next(pc)
               /\ UNCHANGED exitCode
    /\ UNCHANGED <<cwd, files, dirs, cmds>>
    /\ UNCHANGED runVars

\* check_pwd reporting the directory without changing into the root
check_pwd_no_chdir ==
    /\ pc = "check_pwd"
    /\ exitCode = Running
    /\ out' = out \o <<psec("Directory"), MsgA("pinfo", "Current dir", <<cwd>>)>>
                  \o (IF ROOT_DIR # cwd
                      THEN <<pwarn("Current dir is not the root directory"),
                             MsgA("pinfo", "Changing root dir", <<ROOT_DIR>>)>>
                      ELSE <<>>)
                  \o <<psuccess("Current dir is valid")>>
    /\ pc' = main_next(pc)
    /\ UNCHANGED <<exitCode, win, cwd, files, dirs, cmds>>
    /\ UNCHANGED runVars

check_pwd ==
    /\ pc = "check_pwd"
    /\ exitCode = Running
    /\ out' = out \o <<psec("Directory"), MsgA("pinfo", "Current dir", <<cwd>>)>>
                  \o (IF ROOT_DIR # cwd
                      THEN <<pwarn("Current dir is not the root directory"),
                             MsgA("pinfo", "Changing root dir", <<ROOT_DIR>>)>>
                      ELSE <<>>)
                  \o <<psuccess("Current dir is valid")>>
    /\ cwd' = IF ROOT_DIR # cwd THEN ROOT_DIR ELSE cwd
    /\ pc' = main_next(pc)
    /\ UNCHANGED <<exitCode, win, files, dirs, cmds>>
    /\ UNCHANGED runVars

\* check_env validating the file it has just created, and returning when the
\* created file is valid
env_result_revalidate ==
    LET env_file == Rel(".env")
        example == Rel(".env.example")
        created == IF Exists(env_file) \/ ~Exists(example) THEN files
                   ELSE WriteText(files, env_file, env_from_example(files[example]))
    IN  IF ~Exists(env_file) /\ ~Exists(example)
        THEN [exit |-> EXIT_ENV,
              out |-> <<psec("Environment"), pwarn("No .env file found."),
                        perr("Missing .env.example file. Cannot create .env")>>,
              files |-> files]
        ELSE LET scan == env_scan(SplitLines(created[env_file]))
                 note == IF Exists(env_file) THEN <<>>
                         ELSE <<pwarn("No .env file found."), pinfo("Created .env from .env.example")>>
             IN  IF scan.err
                 THEN [exit |-> EXIT_ENV, out |-> <<psec("Environment")>> \o note \o scan.out,
                       files |-> created]
                 ELSE [exit |-> Running,
                       out |-> <<psec("Environment")>> \o note \o scan.out \o <<psuccess(".env is valid")>>,
                       files |-> created]

\* check_env creating an empty .env before it looks for the template
env_result_touch ==
    LET env_file == Rel(".env")
        example == Rel(".env.example")
    IN  IF Exists(env_file)
        THEN LET scan == env_scan(SplitLines(files[env_file]))
             IN  IF scan.err
                 THEN [exit |-> EXIT_ENV, out |-> <<psec("Environment")>> \o scan.out, files |-> files]
                 ELSE [exit |-> Running,
                       out |-> <<psec("Environment")>> \o scan.out \o <<psuccess(".env is valid")>>,
                       files |-> files]
        ELSE IF ~Exists(example)
        THEN [exit |-> EXIT_ENV,
              out |-> <<psec("Environment"), pwarn("No .env file found."),
                        perr("Missing .env.example file. Cannot create .env")>>,
              files |-> WriteText(files, env_file, <<>>)]
        ELSE [exit |-> EXIT_ENV,
              out |-> <<psec("Environment"), pwarn("No .env file found."),
                        pinfo("Created .env from .env.example"),
                        perr("Missing required values in .env (contact darragh0)")>>,
              files |-> WriteText(files, env_file, env_from_example(files[example]))]

\* what check_env does: the exit code (Running when it returns), the messages
\* and the file system afterwards
env_result ==
    LET env_file == Rel(".env")
        example == Rel(".env.example")
    IN  IF Exists(env_file)
        THEN LET scan == env_scan(SplitLines(files[env_file]))
             IN  IF scan.err
                 THEN [exit |-> EXIT_ENV, out |-> <<psec("Environment")>> \o scan.out, files |-> files]
                 ELSE [exit |-> Running,
                       out |-> <<psec("Environment")>> \o scan.out \o <<psuccess(".env is valid")>>,
                       files |-> files]
        ELSE IF ~Exists(example)
        THEN [exit |-> EXIT_ENV,
              out |-> <<psec("Environment"), pwarn("No .env file found."),
                        perr("Missing .env.example file. Cannot create .env")>>,
              files |-> files]
        ELSE [exit |-> EXIT_ENV,
              out |-> <<psec("Environment"), pwarn("No .env file found."),
                        pinfo("Created .env from .env.example"),
                        perr("Missing required values in .env (contact darragh0)")>>,
              files |-> WriteText(files, env_file, env_from_example(files[example]))]

check_env ==
    /\ pc = "check_env"
    /\ exitCode = Running
    /\ out' = out \o env_result.out
    /\ files' = env_result.files
    /\ exitCode' = env_result.exit
    /\ pc' = IF env_result.exit = Running THEN main_next(pc) ELSE pc
    /\ UNCHANGED <<win, cwd, dirs, cmds>>
    /\ UNCHANGED runVars

\* the test passing as soon as one of the two files exists
either_file_exists == Exists(<<ROOT_DIR, KeyFile>>) \/ Exists(<<ROOT_DIR, CertFile>>)

both_files_exist == Exists(<<ROOT_DIR, KeyFile>>) /\ Exists(<<ROOT_DIR, CertFile>>)

\* check_certs going on to the local-CA install after the user declined
certs_result_no_exit(mkcertFound, ans, found, res, ca, gen) ==
    LET certs_dir == <<ROOT_DIR, "certs">>
        made == ~Exists(certs_dir)
        dirs1 == IF made THEN dirs \cup {Rel("certs")} ELSE dirs
        out1 == <<psec("Certificates")>> \o (IF made THEN <<pinfo("Created certs dir")>> ELSE <<>>)
        ask == <<perr("mkcert is not installed"), Msg("input", "Install mkcert?")>>
        inst == install_mkcert(found, res)
        tool == IF mkcertFound
                THEN [stop |-> FALSE, out |-> <<psuccess("mkcert is installed")>>, cmds |-> <<>>]
                ELSE IF ~yn_prompt(ans)
                THEN [stop |-> FALSE,
                      out |-> ask \o <<perr("Please install mkcert to continue")>>,
                      cmds |-> <<>>]
                ELSE IF ~inst.ok
                THEN [stop |-> TRUE,
                      out |-> ask \o inst.out \o <<perr("Failed to install mkcert. Please install manually")>>,
                      cmds |-> inst.cmds]
                ELSE [stop |-> FALSE, out |-> ask \o inst.out, cmds |-> inst.cmds]
        caR == run_cmd(CA_CMD, TRUE, ca)
        genR == run_cmd(GEN_CMD, TRUE, gen)
        out2 == out1 \o tool.out \o <<pinfo("Installing local CA")>> \o caR.out
        out3 == out2 \o <<pinfo("Generating certificates")>> \o genR.out
    IN  IF tool.stop
        THEN [exit |-> EXIT_CERTS, out |-> out1 \o tool.out, cmds |-> tool.cmds,
              files |-> files, dirs |-> dirs1]
        ELSE IF ~caR.ok
        THEN [exit |-> EXIT_CERTS, out |-> out2 \o <<perr("Failed to install local CA")>>,
              cmds |-> tool.cmds \o <<caR.entry>>, files |-> files, dirs |-> dirs1]
        ELSE IF both_files_exist
        THEN [exit |-> Running, out |-> out2 \o <<psuccess("Certificates are valid")>>,
              cmds |-> tool.cmds \o <<caR.entry>>, files |-> files, dirs |-> dirs1]
        ELSE IF ~genR.ok
        THEN [exit |-> EXIT_CERTS, out |-> out3 \o <<perr("Failed to generate certificates")>>,
              cmds |-> tool.cmds \o <<caR.entry, genR.entry>>,
              files |-> AfterCmd(files, GEN_CMD, FALSE), dirs |-> dirs1]
        ELSE [exit |-> Running, out |-> out3 \o <<psuccess("Certificates are valid")>>,
              cmds |-> tool.cmds \o <<caR.entry, genR.entry>>,
              files |-> AfterCmd(files, GEN_CMD, TRUE), dirs |-> dirs1]

\* what check_certs does, given what which("mkcert") finds, the answer to the
\* prompt, the package managers which() finds with the outcome of each one's
\* install command, and the outcomes of the two mkcert commands
certs_result(mkcertFound, ans, found, res, ca, gen) ==
    LET certs_dir == <<ROOT_DIR, "certs">>
        made == ~Exists(certs_dir)
        dirs1 == IF made THEN dirs \cup {Rel("certs")} ELSE dirs
        out1 == <<psec("Certificates")>> \o (IF made THEN <<pinfo("Created certs dir")>> ELSE <<>>)
        ask == <<perr("mkcert is not installed"), Msg("input", "Install mkcert?")>>
        inst == install_mkcert(found, res)
        tool == IF mkcertFound
                THEN [stop |-> FALSE, out |-> <<psuccess("mkcert is installed")>>, cmds |-> <<>>]
                ELSE IF ~yn_prompt(ans)
                THEN [stop |-> TRUE,
                      out |-> ask \o <<perr("Please install mkcert to continue")>>,
                      cmds |-> <<>>]
                ELSE IF ~inst.ok
                THEN [stop |-> TRUE,
                      out |-> ask \o inst.out \o <<perr("Failed to install mkcert. Please install manually")>>,
                      cmds |-> inst.cmds]
                ELSE [stop |-> FALSE, out |-> ask \o inst.out, cmds |-> inst.cmds]
        caR == run_cmd(CA_CMD, TRUE, ca)
        genR == run_cmd(GEN_CMD, TRUE, gen)
        out2 == out1 \o tool.out \o <<pinfo("Installing local CA")>> \o caR.out
        out3 == out2 \o <<pinfo("Generating certificates")>> \o genR.out
    IN  IF tool.stop
        THEN [exit |-> EXIT_CERTS, out |-> out1 \o tool.out, cmds |-> tool.cmds,
              files |-> files, dirs |-> dirs1]
        ELSE IF ~caR.ok
        THEN [exit |-> EXIT_CERTS, out |-> out2 \o <<perr("Failed to install local CA")>>,
              cmds |-> tool.cmds \o <<caR.entry>>, files |-> files, dirs |-> dirs1]
        ELSE IF both_files_exist
        THEN [exit |-> Running, out |-> out2 \o <<psuccess("Certificates are valid")>>,
              cmds |-> tool.cmds \o <<caR.entry>>, files |-> files, dirs |-> dirs1]
        ELSE IF ~genR.ok
        THEN [exit |-> EXIT_CERTS, out |-> out3 \o <<perr("Failed to generate certificates")>>,
              cmds |-> tool.cmds \o <<caR.entry, genR.entry>>,
              files |-> AfterCmd(files, GEN_CMD, FALSE), dirs |-> dirs1]
        ELSE [exit |-> Running, out |-> out3 \o <<psuccess("Certificates are valid")>>,
              cmds |-> tool.cmds \o <<caR.entry, genR.entry>>,
              files |-> AfterCmd(files, GEN_CMD, TRUE), dirs |-> dirs1]

FoundSets == {S \in SUBSET PMNames : Cardinality(S) <= MaxPMsOnPath}

\* the outcomes to draw for a command: all of them when the command is run,
\* a single placeholder when it is not
Drawn(run) == IF run THEN ProcOutcomes ELSE {[created |-> FALSE, rc |-> Running]}

check_certs ==
    /\ pc = "check_certs"
    /\ exitCode = Running
    /\ \E mkcertFound \in BOOLEAN :
       \E ans \in (IF mkcertFound THEN {<<>>} ELSE Answers) :
       \E found \in (IF ~mkcertFound /\ yn_prompt(ans) THEN FoundSets ELSE {{}}) :
       \E res \in [found -> ProcOutcomes] :
       \E ca \in Drawn(mkcertFound \/ (yn_prompt(ans) /\ install_mkcert(found, res).ok)) :
       \E gen \in Drawn(ca.created /\ ca.rc = 0 /\ ~both_files_exist) :
          LET r == certs_result(mkcertFound, ans, found, res, ca, gen)
          IN  /\ out' = out \o r.out
              /\ cmds' = cmds \o r.cmds
              /\ files' = r.files
              /\ dirs' = r.dirs
              /\ exitCode' = r.exit
              /\ pc' = IF r.exit = Running THEN main_next(pc) ELSE pc
    /\ UNCHANGED <<win, cwd>>
    /\ UNCHANGED runVars

\* check_nodejs leaving with the exit code of check_env
nodejs_exit_as_env == EXIT_ENV

\* the argument of sys.exit in check_nodejs
nodejs_exit == EXIT_NODEJS

\* what check_nodejs does, given what which("node") finds and the outcome of
\* npm install
nodejs_result(nodeFound, npm) ==
    LET npmR == run_cmd(NPM_CMD, TRUE, npm)
    IN  IF ~Exists(Rel("package.json"))
        THEN [exit |-> nodejs_exit,
              out |-> <<psec("Dependencies"), perr("Missing required package.json file")>>,
              cmds |-> <<>>]
        ELSE IF ~nodeFound
        THEN [exit |-> nodejs_exit,
              out |-> <<psec("Dependencies"), perr("Node.js is not installed"),
                        perr("Please install it to continue (https://nodejs.org)")>>,
              cmds |-> <<>>]
        ELSE IF ~npmR.ok
        THEN [exit |-> nodejs_exit,
              out |-> <<psec("Dependencies"), pinfo("Installing dependencies")>> \o npmR.out
                        \o <<perr("Failed to install npm dependencies")>>,
              cmds |-> <<npmR.entry>>]
        ELSE [exit |-> Running,
              out |-> <<psec("Dependencies"), pinfo("Installing dependencies")>> \o npmR.out,
              cmds |-> <<npmR.entry>>]

check_nodejs ==
    /\ pc = "check_nodejs"
    /\ exitCode = Running
    /\ \E nodeFound \in BOOLEAN :
       \E npm \in Drawn(nodeFound /\ Exists(Rel("package.json"))) :
          LET r == nodejs_result(nodeFound, npm)
          IN  /\ out' = out \o r.out
              /\ cmds' = cmds \o r.cmds
              /\ exitCode' = r.exit
              /\ pc' = IF r.exit = Running THEN main_next(pc) ELSE pc
    /\ UNCHANGED <<win, cwd, files, dirs>>
    /\ UNCHANGED runVars

FinalMsg == pinfo("Run npm run serve to start the server")

\* main, after the four checks: the final message, the pause on Windows, and
\* the return of main (exit status 0)
main_finish ==
    /\ pc = "finish"
    /\ exitCode = Running
    /\ out' = out \o <<Msg("print", ""), FinalMsg>> \o (IF win THEN <<Msg("print", "")>> ELSE <<>>)
    /\ \E o \in {x \in ProcOutcomes : x.created} :
          cmds' = IF win
                  THEN Append(cmds, [cmd |-> "pause", output |-> FALSE, cwd |-> cwd,
                                     created |-> o.created, rc |-> o.rc])
                  ELSE cmds
    /\ exitCode' = 0
    /\ pc' = main_next(pc)
    /\ UNCHANGED <<win, cwd, files, dirs>>
    /\ UNCHANGED runVars

----------------------------------------------------------------------------
(* run_cmd, step by step, with its child process *)

\* the lines a child writes: a blank one, a progress line, a plain line and a
\* line that mentions Progress after its first word
ChildLines ==
    { <<" ", "\n">>,
      <<" ", "Progress", "x", "\n">>,
      <<"x", "\n">>,
      <<"x", "Progress", "\n">> }

\* what a child does before it exits: writes to its stdout and stderr
Writes1 == [fd : {"stdout", "stderr"}, line : ChildLines]

Scripts == UNION {[1..k -> Writes1] : k \in 0..MaxWrites}

\* entries of the terminal transcript
Rendered(text, end, from) == [kind |-> "line", text |-> text, end |-> end, from |-> from]
Break(from) == [kind |-> "break", text |-> <<>>, end |-> "\n", from |-> from]
Raw(text) == [kind |-> "raw", text |-> text, end |-> "\n", from |-> "child"]
Except(text) == [kind |-> "except", text |-> text, end |-> "\n", from |-> "run_cmd"]

\* the loop body printing no line break between a progress line and the line
\* that follows it
render_line_no_break(line, swp, from) ==
    LET l == Strip(line)
        progress == StartsWith(l, "Progress")
        swp1 == IF progress THEN TRUE ELSE FALSE
    IN  IF l = <<>>
        THEN [nonblank |-> FALSE, swp |-> swp, term |-> <<>>]
        ELSE [nonblank |-> TRUE,
              swp |-> swp1,
              term |-> <<Rendered(l, IF swp1 THEN "\r" ELSE "\n", from)>>]

\* body of the loops over process.stdout and process.stderr (lines 172-184 and
\* 190-201): whether the line is printed, starts_w_progress afterwards, and
\* what is rendered
render_line(line, swp, from) ==
    LET l == Strip(line)
        progress == StartsWith(l, "Progress")
        swp1 == IF progress THEN TRUE ELSE FALSE
    IN  IF l = <<>>
        THEN [nonblank |-> FALSE, swp |-> swp, term |-> <<>>]
        ELSE [nonblank |-> TRUE,
              swp |-> swp1,
              term |-> (IF ~progress /\ swp THEN <<Break(from)>> ELSE <<>>)
                       \o <<Rendered(l, IF swp1 THEN "\r" ELSE "\n", from)>>]

\* what follows process.wait() with stderr read whatever stdout printed
after_wait_always(p) == "stderr"

\* what follows process.wait() in captured mode (line 188)
after_wait(p) == IF p THEN "return" ELSE "stderr"

\* the return value counting every status that is not negative as success
run_result_nonneg(rc) == IF rc >= 0 THEN "True" ELSE "False"

\* the return value of the else branch (line 211)
run_result(rc) == IF rc = 0 THEN "True" ELSE "False"

\* the except branch (lines 205-208)
run_except ==
    /\ term' = term \o <<Except(<<"exception">>), Except(<<"Failed to run command">>)>>
    /\ ret' = "False"
    /\ rpc' = "returned"

\* sp.Popen (lines 157-169): the child starts, or Popen raises
run_popen ==
    /\ rpc = "popen"
    /\ \E created \in BOOLEAN :
          IF created
          THEN /\ child' = [child EXCEPT !.state = "running"]
               /\ rpc' = IF capture THEN "stdout" ELSE "wait"
               /\ printed' = FALSE
               /\ starts_w_progress' = FALSE
               /\ UNCHANGED <<term, ret>>
          ELSE /\ run_except
               /\ UNCHANGED <<child, printed, starts_w_progress>>
    /\ UNCHANGED <<mainVars, capture, pipeOut, pipeErr, return_code>>

\* the child writes its next line: into the pipe when there is room in captured
\* mode, straight to the terminal otherwise
child_write ==
    /\ child.state = "running"
    /\ child.next <= Len(child.script)
    /\ LET w == child.script[child.next]
       IN  IF ~capture
           THEN /\ term' = Append(term, Raw(w.line))
                /\ UNCHANGED <<pipeOut, pipeErr>>
           ELSE IF w.fd = "stdout"
           THEN /\ Len(pipeOut) < PipeCap
                /\ pipeOut' = Append(pipeOut, w.line)
                /\ UNCHANGED <<pipeErr, term>>
           ELSE /\ Len(pipeErr) < PipeCap
                /\ pipeErr' = Append(pipeErr, w.line)
                /\ UNCHANGED <<pipeOut, term>>
    /\ child' = [child EXCEPT !.next = @ + 1]
    /\ UNCHANGED <<mainVars, rpc, capture, printed, starts_w_progress, return_code, ret>>

\* the child has written everything: it exits and its ends of the pipes close
child_exit ==
    /\ child.state = "running"
    /\ child.next > Len(child.script)
    /\ child' = [child EXCEPT !.state = "exited"]
    /\ UNCHANGED <<mainVars, rpc, capture, pipeOut, pipeErr, printed, starts_w_progress,
                   return_code, term, ret>>

\* one turn of "for line in process.stdout" (lines 171-184): a line is read
\* and rendered, or the stream is at its end; with the pipe empty and the
\* child alive the read blocks
read_stdout ==
    /\ rpc = "stdout"
    /\ IF pipeOut # <<>>
       THEN LET r == render_line(Head(pipeOut), starts_w_progress, "stdout")
            IN  /\ pipeOut' = Tail(pipeOut)
                /\ printed' = (printed \/ r.nonblank)
                /\ starts_w_progress' = r.swp
                /\ term' = term \o r.term
                /\ UNCHANGED rpc
       ELSE /\ child.state = "exited"
            /\ rpc' = "wait"
            /\ UNCHANGED <<pipeOut, printed, starts_w_progress, term>>
    /\ UNCHANGED <<mainVars, capture, child, pipeErr, return_code, ret>>

\* process.wait() (lines 186-188 and 203): blocks until the child has exited
run_wait ==
    /\ rpc = "wait"
    /\ child.state = "exited"
    /\ return_code' = child.rc
    /\ rpc' = IF capture THEN after_wait(printed) ELSE "return"
    /\ UNCHANGED <<mainVars, capture, child, pipeOut, pipeErr, printed, starts_w_progress,
                   term, ret>>

\* one turn of "for line in process.stderr" (lines 189-201)
read_stderr ==
    /\ rpc = "stderr"
    /\ IF pipeErr # <<>>
       THEN LET r == render_line(Head(pipeErr), starts_w_progress, "stderr")
            IN  /\ pipeErr' = Tail(pipeErr)
                /\ starts_w_progress' = r.swp
                /\ term' = term \o r.term
                /\ UNCHANGED rpc
       ELSE /\ child.state = "exited"
            /\ rpc' = "return"
            /\ UNCHANGED <<pipeErr, starts_w_progress, term>>
    /\ UNCHANGED <<mainVars, capture, child, pipeOut, printed, return_code, ret>>

\* reading a line raises (the bytes are not UTF-8): the except branch
read_fault ==
    /\ \/ rpc = "stdout" /\ pipeOut # <<>>
       \/ rpc = "stderr" /\ pipeErr # <<>>
    /\ run_except
    /\ UNCHANGED <<mainVars, capture, child, pipeOut, pipeErr, printed, starts_w_progress,
                   return_code>>

\* return return_code == 0 (lines 210-211)
run_return ==
    /\ rpc = "return"
    /\ ret' = run_result(return_code)
    /\ rpc' = "returned"
    /\ UNCHANGED <<mainVars, capture, child, pipeOut, pipeErr, printed, starts_w_progress,
                   return_code, term>>

\* no call of run_cmd is being followed
RunIdle ==
    /\ rpc = "idle"
    /\ capture = TRUE
    /\ child = [script |-> <<>>, next |-> 1, state |-> "none", rc |-> 0]
    /\ pipeOut = <<>>
    /\ pipeErr = <<>>
    /\ printed = FALSE
    /\ starts_w_progress = FALSE
    /\ return_code = Running
    /\ term = <<>>
    /\ ret = "none"

----------------------------------------------------------------------------
(* Initial states *)

Alphabet == {"#", "=", " ", "\n", "ARGON_THREADS", "x"}

\* every text of at most n tokens
Texts(n) == UNION {[1..k -> Alphabet] : k \in 0..n}

ExamplePath == <<ROOT_DIR, ".env.example">>
PackagePath == <<ROOT_DIR, "package.json">>

ValidEnv == <<"ARGON_THREADS", "=", "x", "\n">>
DuplicateEnv == <<"ARGON_THREADS", "=", "x", "\n", " ", "ARGON_THREADS", " ", "=", "x", "\n">>
DuplicateInvalidEnv == <<"ARGON_THREADS", "=", "x", "\n", "ARGON_THREADS", "=", "\n">>
InvalidEnv == <<"x", "=", "x", "\n">>
HeaderExample == <<"#", "\n", "ARGON_THREADS", "=", "x", "\n">>
OneLineExample == <<"#", " ", "x">>

\* a file system holding exactly the given file
One(p, content) == [q \in {p} |-> content]

None == [q \in {} |-> <<>>]

\* the certificate directory: absent, or present with each of the two files
\* absent, empty or filled
CertSetups ==
    { [d |-> {}, f |-> None] }
    \cup { [d |-> {<<ROOT_DIR, "certs">>}, f |-> k @@ c] :
             k \in {None, One(<<ROOT_DIR, KeyFile>>, <<>>), One(<<ROOT_DIR, KeyFile>>, <<"PEM">>)},
             c \in {None, One(<<ROOT_DIR, CertFile>>, <<>>), One(<<ROOT_DIR, CertFile>>, <<"PEM">>)} }

PackageSetups == {None, One(PackagePath, <<"{}">>)}

\* the configuration file and its template in the runs of the whole pipeline
EnvSetups ==
    { One(EnvPath, e) @@ One(ExamplePath, HeaderExample) : e \in {ValidEnv, InvalidEnv, DuplicateEnv, DuplicateInvalidEnv} }
    \cup { One(ExamplePath, t) : t \in {HeaderExample, OneLineExample, <<>>} }
    \cup { None }

Start ==
    /\ pc = "main"
    /\ exitCode = Running
    /\ win = FALSE
    /\ out = <<>>
    /\ cmds = <<>>

CompleteCerts ==
    [d |-> {<<ROOT_DIR, "certs">>},
     f |-> One(<<ROOT_DIR, KeyFile>>, <<"PEM">>) @@ One(<<ROOT_DIR, CertFile>>, <<"PEM">>)]

ValidSetup == One(EnvPath, ValidEnv) @@ One(ExamplePath, HeaderExample)

\* a checkout started from its root or from elsewhere: every state of the
\* configuration file in a checkout whose certificates and manifest are in
\* place, and every state of the certificates and of the manifest in a
\* checkout whose configuration file is valid
Init ==
    /\ Start
    /\ RunIdle
    /\ cwd \in {ROOT_DIR, OtherDir}
    /\ \E e \in EnvSetups, c \in CertSetups, p \in PackageSetups :
          /\ e = ValidSetup \/ (c = CompleteCerts /\ p = One(PackagePath, <<"{}">>))
          /\ files = e @@ c.f @@ p
          /\ dirs = c.d

Next ==
    \/ main_gate
    \/ check_pwd
    \/ check_env
    \/ check_certs
    \/ check_nodejs
    \/ main_finish

Spec == Init /\ [][Next]_vars

\* the Configuration Check on every configuration file and every template of
\* at most MaxLen tokens, in a checkout that is otherwise complete
InitEnv ==
    /\ Start
    /\ RunIdle
    /\ cwd = ROOT_DIR
    /\ dirs = {<<ROOT_DIR, "certs">>}
    /\ \E e \in {One(EnvPath, t) @@ One(ExamplePath, HeaderExample) : t \in Texts(MaxLen)}
              \cup {One(ExamplePath, t) : t \in Texts(MaxLen)} \cup {None} :
          files = e @@ CompleteCerts.f @@ One(PackagePath, <<"{}">>)

NextEnv ==
    \/ main_gate
    \/ check_pwd
    \/ check_env

SpecEnv == InitEnv /\ [][NextEnv]_vars

\* the call run_cmd("npm install", indent=4) of check_nodejs, in a run started
\* in the root of a complete checkout with mkcert installed
AtNpmInstall ==
    /\ pc = "check_nodejs"
    /\ exitCode = Running
    /\ win = FALSE
    /\ cwd = ROOT_DIR
    /\ files = ValidSetup @@ CompleteCerts.f @@ One(PackagePath, <<"{}">>)
    /\ dirs = CompleteCerts.d
    /\ out = <<Msg("pbanner", ""), psec("Directory"), MsgA("pinfo", "Current dir", <<ROOT_DIR>>),
               psuccess("Current dir is valid"), psec("Environment"), psuccess(".env is valid"),
               psec("Certificates"), psuccess("mkcert is installed"), pinfo("Installing local CA"),
               psuccess("Certificates are valid"), psec("Dependencies"),
               pinfo("Installing dependencies")>>
    /\ cmds = <<[cmd |-> CA_CMD, output |-> TRUE, cwd |-> ROOT_DIR, created |-> TRUE, rc |-> 0]>>

\* a call of run_cmd, captured or not, on every child that writes at most
\* MaxWrites lines and exits with status 0 or 1
InitRun ==
    /\ AtNpmInstall
    /\ rpc = "popen"
    /\ capture \in BOOLEAN
    /\ \E sc \in Scripts, rc \in {0, 1} :
          child = [script |-> sc, next |-> 1, state |-> "none", rc |-> rc]
    /\ pipeOut = <<>>
    /\ pipeErr = <<>>
    /\ printed = FALSE
    /\ starts_w_progress = FALSE
    /\ return_code = Running
    /\ term = <<>>
    /\ ret = "none"

NextRun ==
    \/ run_popen
    \/ child_write
    \/ child_exit
    \/ read_stdout
    \/ run_wait
    \/ read_stderr
    \/ read_fault
    \/ run_return

SpecRun == InitRun /\ [][NextRun]_vars


----------------------------------------------------------------------------
(* Vocabulary of the properties *)

Order == <<"Directory", "Environment", "Certificates", "Dependencies">>

\* the section headers printed so far, in order
Titles(o) ==
    LET hs == SelectSeq(o, LAMBDA m : m.lvl = "psec")
    IN  [i \in 1..Len(hs) |-> hs[i].msg]

IsPrefix(a, b) == Len(a) <= Len(b) /\ a = SubSeq(b, 1, Len(a))

Printed(m) == \E i \in 1..Len(out) : out[i] = m

\* what a step adds to the output and to the commands run
NewOut == SubSeq(out', Len(out) + 1, Len(out'))
NewCmds == SubSeq(cmds', Len(cmds) + 1, Len(cmds'))

\* the check that main is about to call, or has called last
CheckAt(p) ==
    CASE p = "check_pwd"    -> "Directory"
      [] p = "check_env"    -> "Environment"
      [] p = "check_certs"  -> "Certificates"
      [] p = "check_nodejs" -> "Dependencies"
      [] OTHER              -> "none"

----------------------------------------------------------------------------
(* Properties *)

\* C1: past the privilege gate the four checks start in the order Directory,
\* Configuration, Certificate, Dependency, each at most once; a check starts
\* only in a process that has not terminated and whose previous checks have
\* all returned to main; the final message is printed only after the
\* Dependency Check has returned.
C1_CheckOrder ==
    [][ /\ IsPrefix(Titles(out'), Order)
        /\ (exitCode # Running => out' = out)
        /\ (Titles(out') # Titles(out) =>
               /\ exitCode = Running
               /\ Titles(out') = Append(Titles(out), CheckAt(pc))
               /\ Titles(out') = SubSeq(Order, 1, Len(Titles(out'))))
        /\ ((\E i \in 1..Len(NewOut) : NewOut[i] = FinalMsg) =>
               /\ Titles(out) = Order
               /\ pc = "finish"
               /\ exitCode = Running
               /\ cmds # <<>> /\ cmds[Len(cmds)].cmd = NPM_CMD /\ cmds[Len(cmds)].rc = 0)
      ]_vars

C1_Witness ==
    /\ pc = "done"
    /\ Titles(out) = Order
    /\ Printed(FinalMsg)

----------------------------------------------------------------------------
(* Vocabulary of the configuration file *)

KeyPath == <<ROOT_DIR, KeyFile>>
CertPath == <<ROOT_DIR, CertFile>>

Created == pinfo("Created .env from .env.example")

IsBlank(l) == \A i \in 1..Len(l) : l[i] \in WS

IsComment(l) == l # <<>> /\ l[1] = "#"

\* the first "=" of the line is at i, a recognized key and nothing but
\* whitespace stands before it, and something other than whitespace after it
PairAt(l, i) ==
    /\ l[i] = "="
    /\ \E j \in 1..(i - 1) :
          /\ l[j] \in ENV_KEYS
          /\ \A m \in (1..(i - 1)) \ {j} : l[m] \in WS
    /\ \E m \in (i + 1)..Len(l) : l[m] \notin WS

IsPair(l) == \E i \in 1..Len(l) : PairAt(l, i)

IsMalformed(l) == ~IsBlank(l) /\ ~IsComment(l) /\ ~IsPair(l)

Malformed(text) == SelectSeq(SplitLines(text), IsMalformed)

\* the recognized key a line sets, "none" when it sets none
KeyName(l) ==
    IF \E i \in 1..Len(l) : l[i] = "=" /\ \E j \in 1..(i - 1) :
          l[j] \in ENV_KEYS /\ \A m \in (1..(i - 1)) \ {j} : l[m] \in WS
    THEN l[CHOOSE j \in 1..Len(l) : l[j] \in ENV_KEYS]
    ELSE "none"

HasDuplicateKey(text) ==
    LET ls == SplitLines(text)
    IN  \E i, j \in 1..Len(ls) :
           /\ i < j
           /\ ~IsComment(ls[i]) /\ ~IsComment(ls[j])
           /\ KeyName(ls[i]) # "none"
           /\ KeyName(ls[i]) = KeyName(ls[j])

\* the message m reports the malformed line l
Reports(m, l) ==
    /\ m.lvl = "perr"
    /\ IF \A i \in 1..Len(l) : l[i] # "="
       THEN m.msg = "Invalid line in .env" /\ m.arg = Strip(l)
       ELSE /\ m.msg \in {"Unknown key in .env", "Empty value for key .env"}
            /\ \E i \in 1..Len(l) :
                  l[i] = "=" /\ m.arg = SubSeq(l, 1, i - 1) /\ \A j \in 1..(i - 1) : l[j] # "="

\* a step of the Configuration Check on an existing configuration file
ValidatingStep == pc = "check_env" /\ exitCode = Running /\ EnvPath \in DOMAIN files

RECURSIVE Flatten(_)
Flatten(ls) == IF ls = <<>> THEN <<>> ELSE Head(ls) \o Flatten(Tail(ls))

\* the text without its first line
DropFirstLine(text) == IF text = <<>> THEN <<>> ELSE Flatten(Tail(SplitLines(text)))

----------------------------------------------------------------------------
(* Properties of the Configuration Check *)

\* C3: on an existing configuration file all of whose lines are blank,
\* comments or key=value pairs with a recognized key and a non-empty trimmed
\* value, the Configuration Check returns without terminating the process and
\* changes no file and no directory.
C3_ValidFileAccepted ==
    [][ (ValidatingStep /\ Malformed(files[EnvPath]) = <<>>) =>
           /\ exitCode' = Running
           /\ pc' = "check_certs"
           /\ files' = files
           /\ dirs' = dirs
      ]_vars

C3_Witness ==
    /\ pc = "check_certs"
    /\ EnvPath \in DOMAIN files
    /\ files[EnvPath] = <<"#", "\n", "ARGON_THREADS", "=", "x">>
    /\ Printed(psuccess(".env is valid"))

\* C4: on an existing configuration file with at least one malformed line the
\* Configuration Check reports every malformed line exactly once, in file
\* order, reports nothing else, and then terminates the process with exit
\* code 2, wherever the malformed lines sit.
C4_EveryMalformedLineReported ==
    [][ (ValidatingStep /\ Malformed(files[EnvPath]) # <<>>) =>
           LET bad == Malformed(files[EnvPath])
               errs == SelectSeq(NewOut, LAMBDA m : m.lvl # "psec")
           IN  /\ exitCode' = 2
               /\ pc' = "check_env"
               /\ Len(errs) = Len(bad)
               /\ \A i \in 1..Len(bad) : Reports(errs[i], bad[i])
      ]_vars

C4_Witness ==
    /\ exitCode = 2
    /\ EnvPath \in DOMAIN files
    /\ files[EnvPath] = <<"x", "\n", "#", "\n", "=">>
    /\ Len(SelectSeq(out, LAMBDA m : m.lvl = "perr")) = 2

\* C5: when the configuration file is created from the template, its content
\* is the template's content without its first line, for every template.
C5_FirstLineRemoved ==
    Printed(Created) =>
        /\ EnvPath \in DOMAIN files
        /\ files[EnvPath] = DropFirstLine(files[ExamplePath])

\* C6: a run that created the configuration file from the template terminates
\* with exit code 2 in the Configuration Check, whatever was written, and
\* starts neither the Certificate Check nor the Dependency Check.
C6_CreationAlwaysTerminates ==
    Printed(Created) =>
        /\ exitCode = 2
        /\ pc = "check_env"
        /\ Titles(out) = <<"Directory", "Environment">>
        /\ cmds = <<>>

C6_Witness ==
    /\ Printed(Created)
    /\ exitCode = 2
    /\ files[EnvPath] = ValidEnv
    /\ Malformed(files[EnvPath]) = <<>>

\* C7: with neither configuration file nor template, the Configuration Check
\* terminates the process with exit code 2 and creates or changes no file.
C7_NoTemplateNoWrite ==
    [][ (pc = "check_env" /\ exitCode = Running
            /\ EnvPath \notin DOMAIN files /\ ExamplePath \notin DOMAIN files) =>
           /\ exitCode' = 2
           /\ files' = files
           /\ dirs' = dirs
           /\ EnvPath \notin DOMAIN files'
      ]_vars

C7_Witness ==
    /\ exitCode = 2
    /\ pc = "check_env"
    /\ EnvPath \notin DOMAIN files
    /\ ExamplePath \notin DOMAIN files
    /\ Printed(perr("Missing .env.example file. Cannot create .env"))

\* C8 as claimed: a configuration file in which a recognized key appears on
\* more than one non-comment line makes the Configuration Check terminate the
\* process with exit code 2.
C8_DuplicateKeyRejected ==
    [][ (ValidatingStep /\ HasDuplicateKey(files[EnvPath])) => exitCode' = 2 ]_vars

\* C8 as amended: the Configuration Check does not compare keys across lines;
\* a file in which a recognized key repeats terminates the process with exit
\* code 2 exactly when one of its lines, taken alone, is malformed, and is
\* accepted otherwise.
C8_DuplicateKeyAccepted ==
    [][ (ValidatingStep /\ HasDuplicateKey(files[EnvPath])) =>
           /\ (Malformed(files[EnvPath]) # <<>> => exitCode' = 2)
           /\ (Malformed(files[EnvPath]) = <<>> => exitCode' = Running /\ pc' = "check_certs")
      ]_vars

C8_Witness ==
    /\ pc = "check_certs"
    /\ EnvPath \in DOMAIN files
    /\ HasDuplicateKey(files[EnvPath])
    /\ Printed(psuccess(".env is valid"))

----------------------------------------------------------------------------
(* Properties of the Certificate Check *)

CertsValid == psuccess("Certificates are valid")

Succeeded(c) == c.created /\ c.rc = 0

\* the step is one of the Certificate Check in which mkcert -install succeeded
CaInstalledStep ==
    /\ pc = "check_certs"
    /\ exitCode = Running
    /\ \E i \in 1..Len(NewCmds) : NewCmds[i].cmd = CA_CMD /\ Succeeded(NewCmds[i])

\* the generation commands among the commands of a step
Generations == SelectSeq(NewCmds, LAMBDA c : Writes(c.cmd) # {})

\* C9: once the local-CA install has succeeded, the Certificate Check runs the
\* generation command exactly when one of the two certificate files is
\* missing: no generation with both present; otherwise one command, the last
\* of the check, that names both the key file and the certificate file.
C9_GenerateIffOneMissing ==
    [][ CaInstalledStep =>
           /\ ((KeyPath \in DOMAIN files /\ CertPath \in DOMAIN files) => Generations = <<>>)
           /\ ((KeyPath \notin DOMAIN files \/ CertPath \notin DOMAIN files) =>
                  /\ Len(Generations) = 1
                  /\ NewCmds[Len(NewCmds)] = Generations[1]
                  /\ NewCmds[Len(NewCmds) - 1].cmd = CA_CMD)
           /\ \A i \in 1..Len(NewCmds) : Writes(NewCmds[i].cmd) \in {{}, {KeyFile, CertFile}}
      ]_vars

C9_Witness ==
    /\ exitCode = 3
    /\ KeyPath \in DOMAIN files
    /\ CertPath \notin DOMAIN files
    /\ cmds # <<>>
    /\ cmds[Len(cmds)].cmd = GEN_CMD

\* C10 as claimed: the Certificate Check completes only if both certificate
\* files exist and are non-empty.
C10_NonEmptyRequired ==
    Printed(CertsValid) =>
        /\ KeyPath \in DOMAIN files /\ files[KeyPath] # <<>>
        /\ CertPath \in DOMAIN files /\ files[CertPath] # <<>>

\* C10 as amended: the Certificate Check completes only if both certificate
\* files existed when it tested them or the generation command it then ran
\* exited with status zero; it tests existence only, so with both files
\* present, empty or not, it generates nothing and leaves them as they are.
C10_ExistenceOnly ==
    [][ (pc = "check_certs" /\ exitCode = Running) =>
           /\ (exitCode' = Running =>
                  \/ (KeyPath \in DOMAIN files /\ CertPath \in DOMAIN files)
                  \/ (Len(Generations) = 1 /\ Succeeded(Generations[1])))
           /\ ((KeyPath \in DOMAIN files /\ CertPath \in DOMAIN files) =>
                  Generations = <<>> /\ files' = files)
      ]_vars

C10_Witness ==
    /\ Printed(CertsValid)
    /\ KeyPath \in DOMAIN files
    /\ files[KeyPath] = <<>>
    /\ CertPath \in DOMAIN files
    /\ \A i \in 1..Len(cmds) : cmds[i].cmd # GEN_CMD

----------------------------------------------------------------------------
(* Properties of the privilege gate, the tool install and the directory *)

AdminRequired == perr("This script requires administrator privileges on Windows")

InNewOut(m) == \E i \in 1..Len(NewOut) : NewOut[i] = m

\* C13: a run refused at the privilege gate terminates with exit code 1
\* before any check starts: the working directory, the files and the
\* directories are as they were, and no command has been run.
C13_GateTouchesNothing ==
    [][ (pc = "main" /\ exitCode = Running) =>
           /\ (InNewOut(AdminRequired) <=> exitCode' = 1)
           /\ (exitCode' = 1 =>
                  /\ pc' = "main"
                  /\ Titles(out') = <<>>
                  /\ cwd' = cwd
                  /\ files' = files
                  /\ dirs' = dirs
                  /\ cmds' = <<>>)
      ]_vars

C13_Witness ==
    /\ exitCode = 1
    /\ Printed(AdminRequired)
    /\ cwd = OtherDir
    /\ dirs = {}
    /\ cmds = <<>>

\* the Certificate Check found no mkcert and the user declined the install
DeclinedStep ==
    /\ pc = "check_certs"
    /\ exitCode = Running
    /\ InNewOut(perr("mkcert is not installed"))
    /\ ~InNewOut(pinfo("Installing mkcert..."))

\* C14: with the certificate tool not on the path and the install declined,
\* the process terminates with exit code 3, the Certificate Check has run no
\* command, and no certificate file has been created.
C14_DeclineRunsNothing ==
    [][ DeclinedStep =>
           /\ exitCode' = 3
           /\ NewCmds = <<>>
           /\ files' = files
      ]_vars

C14_Witness ==
    /\ exitCode = 3
    /\ Printed(perr("Please install mkcert to continue"))
    /\ cmds = <<>>
    /\ KeyPath \notin DOMAIN files
    /\ CertPath \notin DOMAIN files

\* C15: the Certificate Check runs the install-local-CA command with output
\* capture disabled.
C15_CaInstallNotCaptured ==
    \A i \in 1..Len(cmds) : cmds[i].cmd = CA_CMD => ~cmds[i].output

IsInstall(c) == \E pm \in PMNames : c.cmd = install_cmds[pm]

Installs == SelectSeq(NewCmds, IsInstall)

\* the place of an install command's package manager in the fixed order
PMIndex(c) == CHOOSE i \in 1..Len(PMS) : install_cmds[PMS[i]] = c.cmd

InstallFailed == perr("Failed to install mkcert. Please install manually")

C18_EverythingInRoot ==
    /\ (pc = "check_pwd" => exitCode = Running)
    /\ (pc \notin {"main", "check_pwd"} => cwd = ROOT_DIR)
    /\ \A i \in 1..Len(cmds) : cmds[i].cwd = ROOT_DIR
    /\ \A d \in dirs : d[1] = ROOT_DIR
    /\ \A p \in DOMAIN files : p[1] = ROOT_DIR
    /\ (Printed(pinfo("Created certs dir")) => <<ROOT_DIR, "certs">> \in dirs)

C18_Witness ==
    /\ pc = "done"
    /\ Printed(pwarn("Current dir is not the root directory"))
    /\ Printed(pinfo("Created certs dir"))
    /\ <<ROOT_DIR, "certs">> \in dirs
    /\ \E i \in 1..Len(cmds) : cmds[i].cmd = GEN_CMD

----------------------------------------------------------------------------
(* The Process Runner *)

IsLine(e) == e.kind = "line"

IsProgress(e) == IsLine(e) /\ StartsWith(e.text, "Progress")

IsPlain(e) == IsLine(e) /\ ~StartsWith(e.text, "Progress")

\* the lines the child's script writes to one stream, in order
Written(fd) ==
    LET ws == SelectSeq(child.script, LAMBDA w : w.fd = fd)
    IN  [i \in 1..Len(ws) |-> ws[i].line]

\* the lines of a stream that are not blank, trimmed
Printable(fd) ==
    LET ls == Written(fd)
        trimmed == [i \in 1..Len(ls) |-> Strip(ls[i])]
    IN  SelectSeq(trimmed, LAMBDA l : l # <<>>)

\* the texts rendered from one stream, in order
RenderedFrom(fd) ==
    LET es == SelectSeq(term, LAMBDA e : IsLine(e) /\ e.from = fd)
    IN  [i \in 1..Len(es) |-> es[i].text]

Faulted == \E i \in 1..Len(term) : term[i].kind = "except"

Returned == ret # "none"

\* C11: in captured mode a line is rendered with a carriage-return ending
\* exactly when it is a progress line, a non-progress line never directly
\* follows a progress line in the transcript (a line break comes between them,
\* however many blank lines the child wrote in between), a line break is
\* emitted only there, so never between two progress lines, and once the
\* runner has returned without a fault the lines rendered from standard output
\* are the child's non-blank lines, trimmed, in order.
C11_ProgressThenBreak ==
    capture =>
        /\ \A i \in 1..Len(term) :
              /\ IsLine(term[i]) => (term[i].end = "\r" <=> IsProgress(term[i]))
              /\ (IsPlain(term[i]) /\ i > 1) => ~IsProgress(term[i - 1])
              /\ term[i].kind = "break" =>
                    /\ i > 1 /\ IsProgress(term[i - 1])
                    /\ i < Len(term) /\ IsPlain(term[i + 1])
        /\ (Returned /\ ~Faulted) => RenderedFrom("stdout") = Printable("stdout")

\* a child wrote a progress line, a blank line and a plain line, and the
\* runner returned with the line break rendered between the two
C11_Witness ==
    /\ capture /\ ret = "True"
    /\ Len(child.script) = 3
    /\ Strip(child.script[2].line) = <<>>
    /\ Len(term) = 3
    /\ IsProgress(term[1]) /\ term[2].kind = "break" /\ IsPlain(term[3])

\* C12: run_cmd returns True exactly when the child was created, nothing
\* raised, and the status read by process.wait() is zero; a non-zero status
\* returns False; a fault while creating or reading the process ends in the
\* except branch, which reports it and returns False, so the call always ends
\* in a return.
C12_SuccessIffZeroStatus ==
    /\ Faulted => Returned
    /\ return_code # Running => (child.state = "exited" /\ return_code = child.rc)
    /\ Returned =>
          /\ rpc = "returned"
          /\ ret = "True" <=> (child.state = "exited" /\ ~Faulted /\ return_code = 0)
          /\ (~Faulted /\ child.rc # 0) => ret = "False"
          /\ Faulted =>
                /\ ret = "False"
                /\ term[Len(term)] = Except(<<"Failed to run command">>)

\* reading a line of a child that exits with status zero raised, and the
\* runner reported it and returned False
C12_Witness ==
    /\ Returned /\ Faulted /\ ret = "False"
    /\ child.state = "exited" /\ child.rc = 0

FromStderr(e) == e.kind \in {"line", "break"} /\ e.from = "stderr"

\* C17: in captured mode anything rendered from standard error is rendered
\* after standard output reached its end with no non-blank line and after the
\* process exited and was waited for; once the runner has returned without a
\* fault, the lines rendered from standard error are all its non-blank lines,
\* trimmed, when standard output had no non-blank line, and none otherwise,
\* whatever the exit status; a standard-error line ends with a carriage return
\* exactly when it is a progress line.
C17_StderrIffStdoutSilent ==
    capture =>
        /\ \A i \in 1..Len(term) :
              FromStderr(term[i]) =>
                  /\ ~printed
                  /\ Printable("stdout") = <<>>
                  /\ pipeOut = <<>>
                  /\ child.state = "exited"
                  /\ return_code = child.rc
                  /\ IsLine(term[i]) => (term[i].end = "\r" <=> IsProgress(term[i]))
        /\ (Returned /\ ~Faulted) =>
              RenderedFrom("stderr") =
                  IF Printable("stdout") = <<>> THEN Printable("stderr") ELSE <<>>

\* a child wrote a blank line to standard output and a progress line and a
\* plain line to standard error, and the runner rendered the two with the line
\* break between them
C17_Witness ==
    /\ capture /\ Returned /\ ~Faulted
    /\ Len(Written("stdout")) = 1
    /\ Len(term) = 3
    /\ \A i \in 1..3 : FromStderr(term[i])
    /\ IsProgress(term[1]) /\ term[2].kind = "break" /\ IsPlain(term[3])

\* the child cannot go on before run_cmd reads standard error, and run_cmd
\* reads standard error only after the child has closed standard output
MutuallyBlocked ==
    /\ capture
    /\ rpc = "stdout" /\ pipeOut = <<>>
    /\ child.state = "running"
    /\ child.next <= Len(child.script)
    /\ child.script[child.next].fd = "stderr"
    /\ Len(pipeErr) = PipeCap

\* C19: in captured mode run_cmd and the child never wait on each other: the
\* child is never held at a write to a full standard-error pipe while run_cmd
\* is held at a read of an empty standard output.
C19_NeverMutuallyBlocked == ~MutuallyBlocked

\* C20: whenever run_cmd returns in captured mode, the last thing it rendered
\* ended with a line break, so no progress line with its carriage-return
\* ending is left as the final output of the call.
C20_LastLineEndsWithBreak ==
    (capture /\ Returned /\ term # <<>>) => term[Len(term)].end = "\n"
====
